---- MODULE Spec2Model ----
(***************************************************************************)
(* A model of the Outlines structured-output integration of vLLM:          *)
(*   vllm/v1/structured_output/backend_outlines.py                         *)
(*       _compile_index, OutlinesBackend, OutlinesGrammar,                 *)
(*       validate_regex_buildable and its two tree walks                   *)
(*   vllm/model_executor/guided_decoding/outlines_logits_processors.py     *)
(*       get_cache / CACHE, BaseLogitsProcessor, RegexLogitsProcessor,     *)
(*       get_vocabulary                                                    *)
(*                                                                         *)
(* The automaton engine (outlines_core: Vocabulary, Index, Guide) is an    *)
(* external library.  It is modelled by what its calls do at the places    *)
(* the two files use them: an Index is a token-level DFA compiled from a   *)
(* (regex, vocabulary) pair, a Guide is a cursor (one state) over an       *)
(* Index, advance raises ValueError and leaves the cursor in place when    *)
(* the token has no transition.                                            *)
(***************************************************************************)
EXTENDS Integers, Sequences, FiniteSets, TLC

(***************************************************************************)
(* Bounds of the model.                                                    *)
(***************************************************************************)
MaxBatch == 2          \* longest token batch handed to accept_tokens
MaxProcessed == 3      \* cap on num_processed_tokens / tokens fed to a guide
MaxGrammars == 2       \* live OutlinesGrammar objects (request slots)
MaxCompiles == 4       \* cap on physical oc.Index constructions
MaxNumSeqs == 2        \* rows of the token bitmask
MaxRollback == 2       \* largest n handed to rollback
MaxProcessors == 1     \* live logits processors (request slots)
MaxBuilds == 3         \* cap on oc.Index constructions by logits processors
MaxInput == 2          \* longest input_ids handed to a logits processor
MaxNodes == 3          \* syntax-tree nodes of an enumerated pattern
MaxVocab == 3          \* tokens of an enumerated vocabulary
MaxVocabSize == 65     \* largest vocab_size of an enumerated configuration
MaxChoices == 2        \* longest choice list of an enumerated request
MaxSteps == 3          \* decoding steps of the sequence of a logits processor

(***************************************************************************)
(* Program constants.                                                      *)
(***************************************************************************)
\* functools.lru_cache used bare keeps maxsize entries (CPython's default is
\* 128); the model keeps the eviction rule and scales the size down so that
\* an eviction is reachable.
lru_maxsize == 2
\* (self.vocab_size + 31) // 32 : bits per int32 word of the bitmask.
WordBits == 32
\* vllm_config.model_config.get_vocab_size() of the modelled configuration.
vocab_size == 4

None == "None"

(***************************************************************************)
(* Tokenizers.  get_vocab() is a list of entries in iteration order; str   *)
(* is what convert_token_to_string returns for the token (a sequence of    *)
(* characters, <<>> when the token decodes to the empty string, "?" for    *)
(* the replacement character U+FFFD).  kind tells which case of the        *)
(* canonicalisation the token falls in: "str" (kept as decoded), "bytes"   *)
(* (the token is a bytes object), "llama_byte" (<0xXX>), "gpt2" (every     *)
(* character is in the byte table), "unmapped" (some character is not);    *)
(* raw is the string of byte symbols the token is re-derived to.           *)
(***************************************************************************)
Tokenizers == {"tokA", "tokB"}

Entry(token, id, str, special, kind, raw) ==
    [token |-> token, id |-> id, str |-> str, special |-> special,
     kind |-> kind, raw |-> raw]

Plain(token, id, str, special) == Entry(token, id, str, special, "str", str)

get_vocab(tok) ==
    IF tok = "tokA"
    THEN << Plain("a",        0, <<"a">>,      FALSE),
            Plain("b",        1, <<"b">>,      FALSE),
            Plain("</s>",     2, <<"<", "s">>, TRUE),
            Plain("</think>", 3, <<"<", "t">>, TRUE) >>
    ELSE << Plain("b",        0, <<"b">>,      FALSE),
            Plain("a",        1, <<"a">>,      FALSE),
            Plain("<eos>",    2, <<"<", "e">>, FALSE),
            Plain("",         3, <<>>,         FALSE) >>

\* tokenizer.eos_token_id, NoId when the tokenizer has none.
NoId == -1
eos_token_id(tok) == IF tok \in {"tokA", "tokB"} THEN 2 ELSE NoId

TokenIds == 0 .. (vocab_size - 1)

\* The token string after the canonicalisation of a non-empty decoded string.
TokenStr(e) == IF e.kind \in {"bytes", "llama_byte", "gpt2"} THEN e.raw ELSE e.str

\* _reduced_vocabulary raises RuntimeError at the first token, neither special
\* nor empty, that cannot be converted to bytes.
ReduceRaises(entries) ==
    \E i \in 1 .. Len(entries) :
        ~entries[i].special /\ entries[i].str # <<>> /\ entries[i].kind = "unmapped"

\* The loop of _reduced_vocabulary: the (token string -> ids) map, kept as the
\* sequence of (str, id) pairs in iteration order; special tokens, empty
\* strings and the EOS id are left out.  With eos = NoId (None in the code) no
\* id is equal to it.
RECURSIVE ReduceFrom(_, _, _)
ReduceFrom(entries, i, eos) ==
    IF i > Len(entries) THEN <<>>
    ELSE LET e == entries[i]
             rest == ReduceFrom(entries, i + 1, eos)
         IN  IF e.special THEN rest
             ELSE IF e.str # <<>> /\ e.id # eos
                  THEN <<[str |-> TokenStr(e), id |-> e.id]>> \o rest
                  ELSE rest

\* _reduced_vocabulary as it would be if the EOS token were left out by its
\* string: every token that decodes to the string of the EOS token goes too.
ReducedVocabularyByString(entries, eos) ==
    LET eosStr == {TokenStr(entries[i]) : i \in {j \in 1 .. Len(entries) : entries[j].id = eos}}
    IN  IF ReduceRaises(entries)
        THEN [ret |-> "RuntimeError", map |-> <<>>]
        ELSE [ret |-> None,
              map |-> SelectSeq(ReduceFrom(entries, 1, eos), LAMBDA pr : pr.str \notin eosStr)]

\* _reduced_vocabulary as it would be without the test on the EOS id.
ReducedVocabularyKeepEos(entries, eos) ==
    IF ReduceRaises(entries)
    THEN [ret |-> "RuntimeError", map |-> <<>>]
    ELSE [ret |-> None, map |-> ReduceFrom(entries, 1, NoId)]

\* _reduced_vocabulary on the entries of a vocabulary: the map, or the error.
ReducedVocabulary(entries, eos) ==
    IF ReduceRaises(entries)
    THEN [ret |-> "RuntimeError", map |-> <<>>]
    ELSE [ret |-> None, map |-> ReduceFrom(entries, 1, eos)]

reduced_vocabulary(tok, eos) == ReducedVocabulary(get_vocab(tok), eos).map

\* oc.Vocabulary(eos_token_id, reduced_vocab)
Vocabulary(eos, reduced) == [eos_token_id |-> eos, map |-> reduced]

VocabularyOf(tok) == Vocabulary(eos_token_id(tok), reduced_vocabulary(tok, eos_token_id(tok)))

(***************************************************************************)
(* The automaton engine.  A regex is known by its character-level DFA;     *)
(* state 0 is initial, Dead stands for "no transition".                    *)
(***************************************************************************)
Regexes == {"ab", "a+"}
Dead == -1

CharStep(regex, q, c) ==
    IF regex = "ab"
    THEN (IF q = 0 /\ c = "a" THEN 1 ELSE IF q = 1 /\ c = "b" THEN 2 ELSE Dead)
    ELSE IF regex = "^a"
    THEN (IF q = 0 /\ c = "a" THEN 1 ELSE Dead)
    ELSE (IF q \in {0, 1} /\ c = "a" THEN 1 ELSE Dead)

CharFinal(regex) == IF regex = "ab" THEN {2} ELSE {1}

RECURSIVE Walk(_, _, _)
Walk(regex, q, str) ==
    IF q = Dead \/ str = <<>> THEN q
    ELSE Walk(regex, CharStep(regex, q, Head(str)), Tail(str))

\* oc.Index(regex_string, vocabulary): the token-level automaton.  An Index
\* value records what it was compiled from.
Index(regex_string, vocabulary) == [regex |-> regex_string, vocabulary |-> vocabulary]

IndexIsFinal(index, q) == q \in CharFinal(index.regex)

\* next state of the index for a token id, Dead when there is none.  The EOS
\* id loops on every final state.
IndexNextState(index, q, token) ==
    IF token = index.vocabulary.eos_token_id
    THEN (IF IndexIsFinal(index, q) THEN q ELSE Dead)
    ELSE LET hits == {i \in 1 .. Len(index.vocabulary.map) :
                          index.vocabulary.map[i].id = token}
         IN  IF hits = {} THEN Dead
             ELSE Walk(index.regex, q, index.vocabulary.map[CHOOSE i \in hits : TRUE].str)

IndexAllowedTokens(index, q) ==
    {t \in TokenIds : IndexNextState(index, q, t) # Dead}


(***************************************************************************)
(* State.                                                                  *)
(***************************************************************************)
VARIABLES
    indexHeap,    \* every oc.Index built so far, in construction order
    lru,          \* the lru_cache of _compile_index, least recently used first
    grammars,     \* the OutlinesGrammar objects, by request slot
    bitmask,      \* the token bitmask of allocate_token_bitmask, by row
    last,         \* the last call made and what it returned or raised
    CACHE,        \* the disk cache of outlines_logits_processors (or None)
    tokattr,      \* tokenizer._outlines_vocabulary, by tokenizer
    processors,   \* the BaseLogitsProcessor objects, by slot
    pattern,      \* the parsed pattern handed to validate_regex_buildable
    verdict,      \* what validate_regex_buildable did with it
    backend,      \* the OutlinesBackend object (vocab_size, vocabulary)
    tokenizer,    \* the tokenizer handed to _reduced_vocabulary, and its EOS id
    reduction,    \* what _reduced_vocabulary returned or raised for it
    params,       \* the SamplingParams handed to request validation
    disk,         \* the on-disk cache directory: its version tag
    outlines_version,  \* the version of the engine the process runs
    seq_ids       \* the token ids generated so far for the sequence of a processor

engineVars == <<indexHeap, lru, grammars, bitmask>>
v0Vars == <<CACHE, tokattr, processors>>
regexVars == <<pattern, verdict>>
hostVars == <<backend, tokenizer, reduction, params, disk, outlines_version>>
auxVars == <<backend, tokenizer, reduction, params, disk, outlines_version, seq_ids>>
vars == <<indexHeap, lru, grammars, bitmask, last, CACHE, tokattr, processors,
          pattern, verdict, backend, tokenizer, reduction, params, disk,
          outlines_version, seq_ids>>

\* A call record: the operation, the slot it acted on, its integer argument and its
\* result ("True", "False", "None" or the name of the exception raised).
Call(op, g, n, ret) ==
    [op |-> op, g |-> g, n |-> n, regex |-> "", tok |-> "", ret |-> ret]

\* The record of a call that asks for the automaton of (regex, tokenizer).
CompileCall(op, g, regex, tok, ret) ==
    [op |-> op, g |-> g, n |-> 0, regex |-> regex, tok |-> tok, ret |-> ret]

NoCall == Call("init", 0, 0, None)

(***************************************************************************)
(* _compile_index under functools.lru_cache.                               *)
(***************************************************************************)
LruFind(regex_string, vocabulary) ==
    {i \in 1 .. Len(lru) : lru[i].regex = regex_string /\ lru[i].vocabulary = vocabulary}

RemoveAt(s, i) == SubSeq(s, 1, i - 1) \o SubSeq(s, i + 1, Len(s))

\* The cache after a hit at position i: the entry becomes the most recent.
LruTouch(i) == RemoveAt(lru, i) \o <<lru[i]>>

\* The cache after a miss: the least recent entry leaves when the cache is full.
LruInsert(entry) ==
    IF Len(lru) >= lru_maxsize THEN Tail(lru) \o <<entry>> ELSE lru \o <<entry>>

\* _compile_index(regex_string, vocabulary): [ref, heap, lru] after the call.
compile_index(regex_string, vocabulary) ==
    LET hit == LruFind(regex_string, vocabulary)
    IN  IF hit # {}
        THEN LET i == CHOOSE i \in hit : TRUE
             IN  [ref |-> lru[i].ref, heap |-> indexHeap, lru |-> LruTouch(i)]
        ELSE LET ref == Len(indexHeap) + 1
             IN  [ref |-> ref,
                  heap |-> Append(indexHeap, Index(regex_string, vocabulary)),
                  lru |-> LruInsert([regex |-> regex_string, vocabulary |-> vocabulary,
                                     ref |-> ref])]

(***************************************************************************)
(* oc.Guide: a cursor over an Index.                                       *)
(***************************************************************************)
Guide(ref) == [index |-> ref, state |-> 0]

GuideNext(guide, token) == IndexNextState(indexHeap[guide.index], guide.state, token)

\* guide.advance(token) that leaves the guide where it is.
GuideStay(guide, token) == guide

\* guide.advance(token) raises ValueError when GuideNext is Dead.
GuideAdvance(guide, token) == [guide EXCEPT !.state = GuideNext(guide, token)]

GuideIsFinished(guide) == IndexIsFinal(indexHeap[guide.index], guide.state)

GuideReset(guide) == [guide EXCEPT !.state = 0]

\* guide.write_mask_into(ptr, numel, element_size): the words are cleared and
\* the bit of every allowed token that fits in numel words is set.
GuideWriteMask(guide, numel) ==
    {t \in IndexAllowedTokens(indexHeap[guide.index], guide.state) : t < numel * WordBits}

(***************************************************************************)
(* OutlinesBackend.                                                        *)
(***************************************************************************)
RequestTypes == {"JSON", "REGEX", "CHOICE", "GRAMMAR"}
Schemas == {"schemaAB"}

\* oc.json_schema.build_regex_from_schema, an external pure function.
build_regex_from_schema(schema) == "ab"

\* The grammar specifications the requests of one backend carry.
GrammarSpecs(request_type) == IF request_type = "JSON" THEN Schemas ELSE {"ab"}

NoGrammar == [alive |-> FALSE, vocab_size |-> 0, guide |-> Guide(0),
              num_processed_tokens |-> 0]

OutlinesGrammar(vsize, guide) ==
    [alive |-> TRUE, vocab_size |-> vsize, guide |-> guide, num_processed_tokens |-> 0]

\* (self.vocab_size + 31) // 32 words of 32 bits; torch.full(..., -1) sets
\* every bit of every word.
\* The word count as it would be with a plain integer division.
NumWordsFloor(vsize) == vsize \div 32

NumWordsOf(vsize) == (vsize + 31) \div 32
AllOnesOf(vsize) == 0 .. (WordBits * NumWordsOf(vsize) - 1)

NumWords == NumWordsOf(vocab_size)
AllOnes == AllOnesOf(vocab_size)

\* The OutlinesBackend object: not constructed, constructed for a tokenizer, or
\* the exception its constructor raised.
NoBackend == [status |-> "none", tok |-> "", vocab_size |-> 0,
              vocabulary |-> Vocabulary(NoId, <<>>)]
BuiltBackend(tok, vsize, vocabulary) ==
    [status |-> "built", tok |-> tok, vocab_size |-> vsize, vocabulary |-> vocabulary]

\* OutlinesBackend(tok).compile_grammar(request_type, grammar_spec); the
\* Grammar it returns is kept in the free slot g.
compile_grammar(tok, request_type, grammar_spec, g) ==
    /\ ~grammars[g].alive
    /\ IF request_type \in {"JSON", "REGEX"}
       THEN LET regex == IF request_type = "JSON"
                         THEN build_regex_from_schema(grammar_spec)
                         ELSE grammar_spec
                r == compile_index(regex, VocabularyOf(tok))
            IN  /\ Len(r.heap) <= MaxCompiles
                /\ indexHeap' = r.heap
                /\ lru' = r.lru
                /\ grammars' = [grammars EXCEPT ![g] = OutlinesGrammar(vocab_size, Guide(r.ref))]
                /\ last' = CompileCall("compile_grammar", g, regex, tok, None)
       ELSE /\ last' = CompileCall("compile_grammar", g, "", tok, "ValueError")
            /\ UNCHANGED <<indexHeap, lru, grammars>>
    /\ UNCHANGED <<bitmask, v0Vars, regexVars, auxVars>>

\* allocate_token_bitmask(max_num_seqs): torch.full(..., -1, dtype=int32).
allocate_token_bitmask(max_num_seqs) ==
    /\ backend.status = "built"
    /\ bitmask' = [row \in 0 .. (max_num_seqs - 1) |-> AllOnesOf(backend.vocab_size)]
    /\ last' = Call("allocate_token_bitmask", 0, max_num_seqs, None)
    /\ UNCHANGED <<indexHeap, lru, grammars, v0Vars, regexVars, auxVars>>

(***************************************************************************)
(* OutlinesGrammar.                                                        *)
(***************************************************************************)
\* The loop of accept_tokens with the counter incremented before the guide is
\* advanced: a token that has no transition is counted too.
RECURSIVE AcceptLoopCountFirst(_, _, _)
AcceptLoopCountFirst(gr, tokens, i) ==
    IF i > Len(tokens) THEN [grammar |-> gr, ret |-> "True"]
    ELSE IF GuideNext(gr.guide, tokens[i]) = Dead
         THEN [grammar |-> [gr EXCEPT !.num_processed_tokens = @ + 1],
               ret |-> "False"]
         ELSE AcceptLoopCountFirst(
                  [gr EXCEPT !.guide = GuideAdvance(gr.guide, tokens[i]),
                             !.num_processed_tokens = @ + 1],
                  tokens, i + 1)

\* The loop of accept_tokens from position i: every token that advances the
\* guide is counted at once; the first one that does not ends the call.
RECURSIVE AcceptLoop(_, _, _)
AcceptLoop(gr, tokens, i) ==
    IF i > Len(tokens) THEN [grammar |-> gr, ret |-> "True"]
    ELSE IF GuideNext(gr.guide, tokens[i]) = Dead
         THEN [grammar |-> gr, ret |-> "False"]
         ELSE AcceptLoop([gr EXCEPT !.guide = GuideAdvance(gr.guide, tokens[i]),
                                    !.num_processed_tokens = @ + 1],
                         tokens, i + 1)

\* accept_tokens as it would be if the cursor lived in the shared Index instead
\* of the request's own Guide: every Grammar over the same Index moves.
accept_tokens_shared(g, tokens) ==
    /\ grammars[g].alive
    /\ grammars[g].num_processed_tokens + Len(tokens) <= MaxProcessed
    /\ LET r == AcceptLoop(grammars[g], tokens, 1)
       IN  /\ grammars' = [h \in 1 .. MaxGrammars |->
                              IF h = g THEN r.grammar
                              ELSE IF grammars[h].alive
                                      /\ grammars[h].guide.index = grammars[g].guide.index
                                   THEN [grammars[h] EXCEPT !.guide = r.grammar.guide]
                                   ELSE grammars[h]]
           /\ last' = Call("accept_tokens", g, Len(tokens), r.ret)
    /\ UNCHANGED <<indexHeap, lru, bitmask, v0Vars, regexVars, auxVars>>

accept_tokens(g, tokens) ==
    /\ grammars[g].alive
    /\ grammars[g].num_processed_tokens + Len(tokens) <= MaxProcessed
    /\ LET r == AcceptLoop(grammars[g], tokens, 1)
       IN  /\ grammars' = [grammars EXCEPT ![g] = r.grammar]
           /\ last' = Call("accept_tokens", g, Len(tokens), r.ret)
    /\ UNCHANGED <<indexHeap, lru, bitmask, v0Vars, regexVars, auxVars>>

fill_bitmask(g, idx) ==
    /\ grammars[g].alive
    /\ bitmask' = [bitmask EXCEPT ![idx] = GuideWriteMask(grammars[g].guide, NumWords)]
    /\ last' = Call("fill_bitmask", g, idx, None)
    /\ UNCHANGED <<indexHeap, lru, grammars, v0Vars, regexVars, auxVars>>

is_terminated(g) ==
    /\ grammars[g].alive
    /\ last' = Call("is_terminated", g, 0,
                    IF GuideIsFinished(grammars[g].guide) THEN "True" ELSE "False")
    /\ UNCHANGED <<indexHeap, lru, grammars, bitmask, v0Vars, regexVars, auxVars>>

reset(g) ==
    /\ grammars[g].alive
    /\ grammars' = [grammars EXCEPT ![g].guide = GuideReset(@)]
    /\ last' = Call("reset", g, 0, None)
    /\ UNCHANGED <<indexHeap, lru, bitmask, v0Vars, regexVars, auxVars>>

\* OutlinesGrammar defines no rollback: the call raises AttributeError.
rollback(g, n) ==
    /\ grammars[g].alive
    /\ last' = Call("rollback", g, n, "AttributeError")
    /\ UNCHANGED <<indexHeap, lru, grammars, bitmask, v0Vars, regexVars, auxVars>>

\* The request ends or is cancelled: its Grammar is dropped.
discard(g) ==
    /\ grammars[g].alive
    /\ grammars' = [grammars EXCEPT ![g] = NoGrammar]
    /\ last' = Call("discard", g, 0, None)
    /\ UNCHANGED <<indexHeap, lru, bitmask, v0Vars, regexVars, auxVars>>


(***************************************************************************)
(* outlines_logits_processors: get_vocabulary.                             *)
(***************************************************************************)
Attr(state, value) == [state |-> state, value |-> value]
NoVocabulary == Vocabulary(NoId, <<>>)

\* get_vocabulary(tokenizer): what it returns or raises, and the attribute
\* _outlines_vocabulary of the tokenizer after the call.  With the attribute
\* absent, getattr(..., False) is False, which "is not None", so the attribute
\* is read at once.
get_vocabulary(tok) ==
    LET a == tokattr[tok]
    IN  IF a.state # "None"
        THEN (IF a.state = "set"
              THEN [ret |-> None, vocabulary |-> a.value, attr |-> a]
              ELSE [ret |-> "AttributeError", vocabulary |-> NoVocabulary, attr |-> a])
        ELSE IF eos_token_id(tok) # NoId
             THEN LET v == Vocabulary(eos_token_id(tok),
                                      reduced_vocabulary(tok, eos_token_id(tok)))
                  IN  [ret |-> None, vocabulary |-> v, attr |-> Attr("set", v)]
             ELSE [ret |-> "ValueError", vocabulary |-> NoVocabulary, attr |-> a]

\* A direct call of get_vocabulary(tokenizer).
GetVocabulary(tok) ==
    /\ tokattr' = [tokattr EXCEPT ![tok] = get_vocabulary(tok).attr]
    /\ last' = CompileCall("get_vocabulary", 0, "", tok, get_vocabulary(tok).ret)
    /\ UNCHANGED <<engineVars, CACHE, processors, regexVars, auxVars>>

(***************************************************************************)
(* RegexLogitsProcessor and BaseLogitsProcessor.                           *)
(***************************************************************************)
NoProcessor == [alive |-> FALSE, guide |-> Guide(0), reasoner |-> FALSE,
                mask |-> {}, scores |-> {}]

\* The reasoner's end-of-reasoning token.
think_end_token_id == 3

is_reasoning_end(input_ids) ==
    \E i \in 1 .. Len(input_ids) : input_ids[i] = think_end_token_id

extract_content(input_ids) ==
    LET first == CHOOSE i \in 1 .. Len(input_ids) :
                     /\ input_ids[i] = think_end_token_id
                     /\ \A j \in 1 .. (i - 1) : input_ids[j] # think_end_token_id
    IN  SubSeq(input_ids, first + 1, Len(input_ids))

\* RegexLogitsProcessor._get_guide(regex_string, tokenizer): the Guide, or the
\* exception get_vocabulary raised, with the heap, the disk cache and the
\* tokenizer attribute after the call.
get_guide(regex_string, tok) ==
    IF CACHE.enabled /\ CACHE.store[regex_string] # 0
    THEN [ret |-> None, guide |-> Guide(CACHE.store[regex_string]),
          heap |-> indexHeap, cache |-> CACHE, attr |-> tokattr[tok]]
    ELSE LET v == get_vocabulary(tok)
             ref == Len(indexHeap) + 1
         IN  IF v.ret # None
             THEN [ret |-> v.ret, guide |-> Guide(0),
                   heap |-> indexHeap, cache |-> CACHE, attr |-> v.attr]
             ELSE [ret |-> None, guide |-> Guide(ref),
                   heap |-> Append(indexHeap, Index(regex_string, v.vocabulary)),
                   cache |-> IF CACHE.enabled
                             THEN [CACHE EXCEPT !.store[regex_string] = ref]
                             ELSE CACHE,
                   attr |-> v.attr]

\* RegexLogitsProcessor(regex_string, tokenizer, reasoner, vocab_size), kept
\* in the free slot p.
RegexLogitsProcessor(p, regex_string, tok, reasoner) ==
    /\ ~processors[p].alive
    /\ LET r == get_guide(regex_string, tok)
       IN  /\ Len(r.heap) <= MaxBuilds
           /\ indexHeap' = r.heap
           /\ CACHE' = r.cache
           /\ tokattr' = [tokattr EXCEPT ![tok] = r.attr]
           /\ processors' =
                  IF r.ret = None
                  THEN [processors EXCEPT ![p] =
                           [alive |-> TRUE, guide |-> r.guide, reasoner |-> reasoner,
                            mask |-> AllOnes, scores |-> {}]]
                  ELSE processors
           /\ last' = CompileCall("RegexLogitsProcessor", p, regex_string, tok, r.ret)
    /\ UNCHANGED <<lru, grammars, bitmask, regexVars, auxVars>>

\* BaseLogitsProcessor.__call__(input_ids, scores) on fresh scores (every
\* logit finite); scores is the set of token ids whose logit stays finite.
call(p, input_ids) ==
    /\ processors[p].alive
    /\ LET pr == processors[p]
           skip == pr.reasoner /\ ~is_reasoning_end(input_ids)
           ids == IF pr.reasoner /\ ~skip THEN extract_content(input_ids) ELSE input_ids
           token == ids[Len(ids)]
       IN  IF skip
           THEN /\ processors' = [processors EXCEPT ![p].scores = TokenIds]
                /\ last' = Call("__call__", p, Len(input_ids), None)
           ELSE IF Len(ids) > 0 /\ GuideNext(pr.guide, token) = Dead
                THEN /\ processors' = processors
                     /\ last' = Call("__call__", p, Len(input_ids), "ValueError")
                ELSE LET guide == IF Len(ids) > 0
                                  THEN GuideAdvance(pr.guide, token)
                                  ELSE pr.guide
                         mask == GuideWriteMask(guide, NumWords)
                     IN  /\ processors' = [processors EXCEPT
                                              ![p].guide = guide,
                                              ![p].mask = mask,
                                              ![p].scores = TokenIds \cap mask]
                         /\ last' = Call("__call__", p, Len(input_ids), None)
    /\ UNCHANGED <<engineVars, CACHE, tokattr, regexVars, hostVars>>

\* The request ends: its logits processor is dropped.
drop(p) ==
    /\ processors[p].alive
    /\ processors' = [processors EXCEPT ![p] = NoProcessor]
    /\ last' = Call("drop", p, 0, None)
    /\ UNCHANGED <<engineVars, CACHE, tokattr, regexVars, auxVars>>

(***************************************************************************)
(* validate_regex_buildable.  A parsed pattern (sre_parse.parse) is a      *)
(* sequence of nodes (ttype, tval); a node is kept as a record: t is the   *)
(* opcode, v the AT code, mx the upper count of a repetition, subs the     *)
(* sub-sequences of the node (the body of a group, a repetition or an      *)
(* assertion, the branches of an alternation).                             *)
(***************************************************************************)
MAXREPEAT == -1

Node(t, v, mx, subs) == [t |-> t, v |-> v, mx |-> mx, subs |-> subs]
Leaf(t) == Node(t, "", 0, <<>>)
At(code) == Node("AT", code, 0, <<>>)
Subpattern(body) == Node("SUBPATTERN", "", 0, <<body>>)
Branch(branches) == Node("BRANCH", "", 0, branches)
MaxRepeat(mx, body) == Node("MAX_REPEAT", "", mx, <<body>>)
MinRepeat(mx, body) == Node("MIN_REPEAT", "", mx, <<body>>)
AssertNode(body) == Node("ASSERT", "", 0, <<body>>)

Consumers == {"LITERAL", "IN", "ANY"}

\* _subpattern_consumes(parsed) from token i on, and any(... for br in branches)
\* from branch j on.
RECURSIVE SubpatternConsumesFrom(_, _), AnyBranchConsumes(_, _)
SubpatternConsumesFrom(tokens, i) ==
    IF i > Len(tokens) THEN FALSE
    ELSE LET n == tokens[i]
             hit == IF n.t \in Consumers THEN TRUE
                    ELSE IF n.t = "MAX_REPEAT"
                         THEN n.mx # 0 /\ SubpatternConsumesFrom(n.subs[1], 1)
                    ELSE IF n.t = "BRANCH" THEN AnyBranchConsumes(n.subs, 1)
                    ELSE IF n.t = "SUBPATTERN" THEN SubpatternConsumesFrom(n.subs[1], 1)
                    ELSE FALSE
         IN  IF hit THEN TRUE ELSE SubpatternConsumesFrom(tokens, i + 1)

AnyBranchConsumes(branches, j) ==
    IF j > Len(branches) THEN FALSE
    ELSE IF SubpatternConsumesFrom(branches[j], 1) THEN TRUE
    ELSE AnyBranchConsumes(branches, j + 1)

subpattern_consumes(parsed) == SubpatternConsumesFrom(parsed, 1)

\* _prefix_needs_context(parsed) from token i on.  A step of the loop either
\* returns (True or False) or goes on to the next token ("next").  The loop
\* over the branches of an alternation returns True at the first branch that
\* needs context, else tells whether a branch consumed.
RECURSIVE PrefixFrom(_, _), BranchLoop(_, _, _)
PrefixFrom(tokens, i) ==
    IF i > Len(tokens) THEN FALSE
    ELSE LET n == tokens[i]
             step ==
                 IF n.t = "AT" \/ n.t \in {"ASSERT", "ASSERT_NOT"} THEN "True"
                 ELSE IF n.t = "SUBPATTERN"
                      THEN (IF PrefixFrom(n.subs[1], 1) THEN "True"
                            ELSE IF subpattern_consumes(n.subs[1]) THEN "False"
                            ELSE "next")
                 ELSE IF n.t = "BRANCH" THEN BranchLoop(n.subs, 1, FALSE)
                 ELSE IF n.t \in Consumers THEN "False"
                 ELSE IF n.t = "MAX_REPEAT"
                      THEN (IF PrefixFrom(n.subs[1], 1) THEN "True"
                            ELSE IF subpattern_consumes(n.subs[1]) THEN "False"
                            ELSE "next")
                 ELSE "next"
         IN  IF step = "True" THEN TRUE
             ELSE IF step = "False" THEN FALSE
             ELSE PrefixFrom(tokens, i + 1)

BranchLoop(branches, j, saw_consumer) ==
    IF j > Len(branches) THEN (IF saw_consumer THEN "False" ELSE "next")
    ELSE IF PrefixFrom(branches[j], 1) THEN "True"
    ELSE BranchLoop(branches, j + 1,
                    saw_consumer \/ subpattern_consumes(branches[j]))

prefix_needs_context(parsed) == PrefixFrom(parsed, 1)

\* _check_unsupported(parsed) from token i on: "raise" when it raises
\* ValueError, else the value it returns.
RECURSIVE CheckFrom(_, _), CheckBranches(_, _)
CheckFrom(tokens, i) ==
    IF i > Len(tokens) THEN "False"
    ELSE LET n == tokens[i]
             step ==
                 IF n.t \in {"GROUPREF", "GROUPREF_EXISTS"} THEN "raise"
                 ELSE IF n.t \in {"ASSERT", "ASSERT_NOT"} THEN "raise"
                 ELSE IF n.t = "AT"
                      THEN (IF n.v \in {"AT_BOUNDARY", "AT_NON_BOUNDARY"}
                            THEN "raise" ELSE "next")
                 ELSE IF n.t = "BRANCH" THEN CheckBranches(n.subs, 1)
                 ELSE IF n.t = "MAX_REPEAT"
                      THEN (IF CheckFrom(n.subs[1], 1) = "raise" THEN "raise"
                            ELSE IF CheckFrom(n.subs[1], 1) = "True" THEN "True"
                            ELSE "next")
                 ELSE "next"
         IN  IF step = "next" THEN CheckFrom(tokens, i + 1) ELSE step

CheckBranches(branches, j) ==
    IF j > Len(branches) THEN "next"
    ELSE IF CheckFrom(branches[j], 1) = "raise" THEN "raise"
    ELSE IF CheckFrom(branches[j], 1) = "True" THEN "True"
    ELSE CheckBranches(branches, j + 1)

check_unsupported(parsed) == CheckFrom(parsed, 1)

\* validate_regex_buildable on a pattern that parses to `parsed`: "ok" when it
\* returns, else the reason of the ValueError it raises.
validate_regex_buildable(parsed) ==
    IF check_unsupported(parsed) = "raise" THEN "unsupported"
    ELSE IF prefix_needs_context(parsed) THEN "anchored"
    ELSE "ok"

Validate ==
    /\ verdict = "idle"
    /\ verdict' = validate_regex_buildable(pattern)
    /\ last' = Call("validate_regex_buildable", 0, 0,
                    IF validate_regex_buildable(pattern) = "ok" THEN None ELSE "ValueError")
    /\ UNCHANGED <<pattern, engineVars, v0Vars, auxVars>>

(***************************************************************************)
(* The parsed patterns handed to validate_regex_buildable: every syntax    *)
(* tree of at most MaxNodes nodes that sre_parse.parse can return, and the *)
(* trees of some longer patterns.                                          *)
(***************************************************************************)
Leaves == {Leaf("LITERAL"), Leaf("IN"), At("AT_BEGINNING"), At("AT_BOUNDARY"),
           Leaf("GROUPREF")}

RECURSIVE Forests(_), Nodes(_)
Nodes(k) ==
    IF k = 1 THEN Leaves
    ELSE LET bodies == Forests(k - 1)
         IN  {Subpattern(f) : f \in bodies}
             \cup {MaxRepeat(mx, f) : mx \in {0, MAXREPEAT}, f \in bodies}
             \cup {MinRepeat(MAXREPEAT, f) : f \in bodies}
             \cup {AssertNode(f) : f \in bodies}
             \cup UNION {{Branch(<<f1, f2>>) : f1 \in Forests(i), f2 \in Forests(k - 1 - i)} :
                            i \in 0 .. (k - 1)}

Forests(n) ==
    IF n = 0 THEN {<<>>}
    ELSE UNION {{<<nd>> \o f : nd \in Nodes(k), f \in Forests(n - k)} : k \in 1 .. n}

\* The capturing groups of a sequence of nodes, at any depth.
RECURSIVE GroupsFrom(_, _), GroupsOfSubs(_, _)
GroupsFrom(tokens, i) ==
    IF i > Len(tokens) THEN 0
    ELSE (IF tokens[i].t = "SUBPATTERN" THEN 1 ELSE 0)
         + GroupsOfSubs(tokens[i].subs, 1) + GroupsFrom(tokens, i + 1)

GroupsOfSubs(subs, j) ==
    IF j > Len(subs) THEN 0 ELSE GroupsFrom(subs[j], 1) + GroupsOfSubs(subs, j + 1)

\* What sre_parse.parse returns: a group reference follows the group it
\* names (`closed` counts the groups closed so far); the branches of a BRANCH
\* are not all a single literal (those become an IN) and do not all start
\* with the same anchor or reference (a common prefix is moved out).
RECURSIVE ParsedFrom(_, _, _), ParsedSubs(_, _, _)
ParsedFrom(tokens, i, closed) ==
    IF i > Len(tokens) THEN TRUE
    ELSE LET n == tokens[i]
         IN  /\ n.t = "GROUPREF" => closed > 0
             /\ n.t = "BRANCH" =>
                    /\ ~(\A j \in 1 .. Len(n.subs) :
                             Len(n.subs[j]) = 1 /\ n.subs[j][1].t = "LITERAL")
                    /\ ~(\A j \in 1 .. Len(n.subs) :
                             /\ Len(n.subs[j]) > 0
                             /\ n.subs[j][1] = n.subs[1][1]
                             /\ n.subs[j][1].t \in {"AT", "GROUPREF"})
             /\ ParsedSubs(n.subs, 1, closed)
             /\ ParsedFrom(tokens, i + 1,
                           closed + (IF n.t = "SUBPATTERN" THEN 1 ELSE 0)
                                  + GroupsOfSubs(n.subs, 1))

ParsedSubs(subs, j, closed) ==
    IF j > Len(subs) THEN TRUE
    ELSE /\ ParsedFrom(subs[j], 1, closed)
         /\ ParsedSubs(subs, j + 1, closed + GroupsFrom(subs[j], 1))

Lit == Leaf("LITERAL")

\* ^abc, abc$, (^a|b), (a|^b)c, a*b, a{0}^b
NamedPatterns ==
    { <<At("AT_BEGINNING"), Lit, Lit, Lit>>,
      <<Lit, Lit, Lit, At("AT_END")>>,
      <<Subpattern(<<Branch(<< <<At("AT_BEGINNING"), Lit>>, <<Lit>> >>)>>)>>,
      <<Subpattern(<<Branch(<< <<Lit>>, <<At("AT_BEGINNING"), Lit>> >>)>>), Lit>>,
      <<MaxRepeat(MAXREPEAT, <<Lit>>), Lit>>,
      <<MaxRepeat(0, <<Lit>>), At("AT_BEGINNING"), Lit>> }

Patterns ==
    {f \in UNION {Forests(n) : n \in 0 .. MaxNodes} : ParsedFrom(f, 1, 0)}
        \cup NamedPatterns

(***************************************************************************)
(* The structured-output backend: the grammars of the requests in flight.  *)
(***************************************************************************)
NoTokenizer == [entries |-> <<>>, eos_token_id |-> NoId]
NoReduction == [ret |-> "idle", map |-> <<>>]
NoParams == [guided_decoding |-> FALSE,
             regex |-> [kind |-> "None", value |-> None],
             json |-> [kind |-> "None", value |-> None],
             choice |-> [kind |-> "None", value |-> None],
             grammar |-> [kind |-> "None", value |-> None]]
Versions == {"v1", "v2"}

\* Nothing handed to _reduced_vocabulary or to request validation; the cache
\* directory tagged with the version of the running engine.
AuxIdle ==
    /\ tokenizer = NoTokenizer
    /\ reduction = NoReduction
    /\ params = NoParams
    /\ outlines_version = "v1"
    /\ disk = [tag |-> "v1"]
    /\ seq_ids = [p \in 1 .. MaxProcessors |-> <<>>]

\* The backend constructed for tokenizer tokA.
BackendInit == backend = BuiltBackend("tokA", vocab_size, VocabularyOf("tokA"))

Batches == UNION {[1 .. n -> TokenIds] : n \in 0 .. MaxBatch}

EngineInit ==
    /\ indexHeap = <<>>
    /\ lru = <<>>
    /\ grammars = [g \in 1 .. MaxGrammars |-> NoGrammar]
    /\ bitmask = [row \in 0 .. (MaxNumSeqs - 1) |-> AllOnes]

NoStore == [regex \in Regexes |-> 0]

V0Idle ==
    /\ CACHE = [enabled |-> FALSE, store |-> NoStore]
    /\ tokattr = [tok \in Tokenizers |-> Attr("absent", NoVocabulary)]
    /\ processors = [p \in 1 .. MaxProcessors |-> NoProcessor]

RegexIdle ==
    /\ pattern = <<>>
    /\ verdict = "idle"

Init ==
    /\ EngineInit
    /\ V0Idle
    /\ RegexIdle
    /\ AuxIdle
    /\ BackendInit
    /\ last = NoCall

Next ==
    \/ \E rt \in RequestTypes, g \in 1 .. MaxGrammars :
           \E gs \in GrammarSpecs(rt) : compile_grammar("tokA", rt, gs, g)
    \/ allocate_token_bitmask(MaxNumSeqs)
    \/ \E g \in 1 .. MaxGrammars, tokens \in Batches : accept_tokens(g, tokens)
    \/ \E g \in 1 .. MaxGrammars, idx \in 0 .. (MaxNumSeqs - 1) : fill_bitmask(g, idx)
    \/ \E g \in 1 .. MaxGrammars : is_terminated(g)
    \/ \E g \in 1 .. MaxGrammars : reset(g)
    \/ \E g \in 1 .. MaxGrammars, n \in 1 .. MaxRollback : rollback(g, n)
    \/ \E g \in 1 .. MaxGrammars : discard(g)

Spec == Init /\ [][Next]_vars

(***************************************************************************)
(* The compile cache under requests of several backends and patterns.      *)
(***************************************************************************)
AllGrammarSpecs(request_type) == IF request_type = "JSON" THEN Schemas ELSE Regexes

NextCompile ==
    \/ \E tok \in Tokenizers, rt \in RequestTypes, g \in 1 .. MaxGrammars :
           \E gs \in AllGrammarSpecs(rt) : compile_grammar(tok, rt, gs, g)
    \/ \E g \in 1 .. MaxGrammars : is_terminated(g)
    \/ \E g \in 1 .. MaxGrammars : discard(g)

SpecCompile == Init /\ [][NextCompile]_vars

(***************************************************************************)
(* The per-call logits processors.  VLLM_V0_USE_OUTLINES_CACHE decides     *)
(* whether CACHE is a disk cache or None; a tokenizer starts without the   *)
(* attribute _outlines_vocabulary, or with it set to None.                 *)
(***************************************************************************)
InputIds == UNION {[1 .. n -> TokenIds] : n \in 0 .. MaxInput}

InitV0 ==
    /\ EngineInit
    /\ RegexIdle
    /\ CACHE \in {[enabled |-> e, store |-> NoStore] : e \in BOOLEAN}
    /\ tokattr \in [Tokenizers -> {Attr("absent", NoVocabulary), Attr("None", NoVocabulary)}]
    /\ processors = [p \in 1 .. MaxProcessors |-> NoProcessor]
    /\ AuxIdle
    /\ backend = NoBackend
    /\ last = NoCall

NextV0 ==
    \/ \E tok \in Tokenizers : GetVocabulary(tok)
    \/ \E p \in 1 .. MaxProcessors, regex \in Regexes, tok \in Tokenizers,
           reasoner \in BOOLEAN : RegexLogitsProcessor(p, regex, tok, reasoner)
    \/ \E p \in 1 .. MaxProcessors, input_ids \in InputIds :
           call(p, input_ids) /\ UNCHANGED seq_ids
    \/ \E p \in 1 .. MaxProcessors : drop(p)

SpecV0 == InitV0 /\ [][NextV0]_vars


(***************************************************************************)
(* The certifier on the parsed patterns.                                   *)
(***************************************************************************)
InitRegex ==
    /\ EngineInit
    /\ V0Idle
    /\ pattern \in Patterns
    /\ verdict = "idle"
    /\ AuxIdle
    /\ backend = NoBackend
    /\ last = NoCall

NextRegex == Validate

SpecRegex == InitRegex /\ [][NextRegex]_vars

(***************************************************************************)
(* Properties of OutlinesGrammar.                                          *)
(***************************************************************************)
Slots == 1 .. MaxGrammars

\* C1: accept_tokens is atomic: a call that returns False leaves the guide's
\* automaton state and num_processed_tokens exactly as they were before it.
C1_AcceptTokensAtomic ==
    [][(last'.op = "accept_tokens" /\ last'.ret = "False")
         => grammars'[last'.g] = grammars[last'.g]]_vars

\* C2: is_terminated is delayed by one call: the call that directly follows
\* the accept_tokens that brought the automaton to an accepting state returns
\* False, and the call after that one returns True.
C2_DelayedTermination ==
    [][/\ (/\ last.op = "accept_tokens" /\ last.ret = "True"
           /\ last'.op = "is_terminated" /\ last'.g = last.g
           /\ GuideIsFinished(grammars[last.g].guide))
          => last'.ret = "False"
       /\ (/\ last.op = "is_terminated"
           /\ last'.op = "is_terminated" /\ last'.g = last.g
           /\ GuideIsFinished(grammars[last.g].guide))
          => last'.ret = "True"]_vars

\* C3: reset returns the Grammar to its freshly constructed state: the
\* automaton at its initial state and num_processed_tokens = 0.
C3_ResetToFresh ==
    [][last'.op = "reset"
         => grammars'[last'.g] =
                OutlinesGrammar(grammars[last'.g].vocab_size,
                                Guide(grammars[last'.g].guide.index))]_vars

\* C4: rollback(n), for n not above the number of accepted tokens, decrements
\* num_processed_tokens by n.
C4_RollbackDecrements ==
    [][(last'.op = "rollback" /\ last'.n <= grammars[last'.g].num_processed_tokens)
         => /\ last'.ret = None
            /\ grammars'[last'.g].num_processed_tokens =
                   grammars[last'.g].num_processed_tokens - last'.n]_vars

\* C8: requests that share a compiled automaton are isolated: accept_tokens,
\* reset, is_terminated and discard on one Grammar leave every other Grammar
\* (automaton state, counter, termination status), every filled row of the
\* bitmask and the compiled automata unchanged.
C8_Isolation ==
    [][last'.op \in {"accept_tokens", "reset", "is_terminated", "discard"}
         => /\ \A h \in Slots \ {last'.g} :
                   /\ grammars'[h] = grammars[h]
                   /\ grammars[h].alive =>
                          GuideIsFinished(grammars[h].guide)' = GuideIsFinished(grammars[h].guide)
            /\ bitmask' = bitmask
            /\ indexHeap' = indexHeap
            /\ lru' = lru]_vars

\* C8 witness: two live Grammars over the same compiled automaton, one of
\* them just advanced by accept_tokens past the state the other one is in,
\* whose row of the bitmask is filled.
C8_Witness ==
    /\ last.op = "accept_tokens" /\ last.ret = "True" /\ last.n > 0
    /\ \E h \in Slots \ {last.g} :
           /\ grammars[h].alive /\ grammars[last.g].alive
           /\ grammars[h].guide.index = grammars[last.g].guide.index
           /\ grammars[h].guide.state # grammars[last.g].guide.state
           /\ grammars[h].num_processed_tokens > 0
           /\ \E row \in 0 .. (MaxNumSeqs - 1) :
                  bitmask[row] = GuideWriteMask(grammars[h].guide, NumWords)


(***************************************************************************)
(* Properties of the compile caches and of the logits processors.          *)
(***************************************************************************)
\* The automaton handed back by the last compile request.
HandedIndex ==
    IF last.op = "compile_grammar"
    THEN indexHeap[grammars[last.g].guide.index]
    ELSE indexHeap[processors[last.g].guide.index]

\* C5: the automaton handed back for a request (pattern P, vocabulary V), by
\* compile_grammar or by RegexLogitsProcessor._get_guide, was compiled from
\* exactly (P, V).
C5_CacheKeyedByVocabularyAndPattern ==
    (last.op \in {"compile_grammar", "RegexLogitsProcessor"} /\ last.ret = None)
        => HandedIndex = Index(last.regex, VocabularyOf(last.tok))

\* C6: oc.Index is constructed at most once per (vocabulary, pattern) key: no
\* two constructions were made from the same pair.
C6_CompiledAtMostOncePerKey ==
    \A i, j \in 1 .. Len(indexHeap) : i # j => indexHeap[i] # indexHeap[j]

\* C7: get_vocabulary on a tokenizer that has an EOS id and no cached
\* vocabulary builds the Vocabulary, stores it on the tokenizer and returns
\* normally; on a tokenizer that has one stored, it returns normally and
\* leaves the stored Vocabulary as it is.
C7_GetVocabularyMemoizes ==
    [][last'.op = "get_vocabulary"
         => /\ (tokattr[last'.tok].state # "set" /\ eos_token_id(last'.tok) # NoId)
                  => /\ last'.ret = None
                     /\ tokattr'[last'.tok] = Attr("set", VocabularyOf(last'.tok))
            /\ tokattr[last'.tok].state = "set"
                  => /\ last'.ret = None
                     /\ tokattr'[last'.tok] = tokattr[last'.tok]]_vars

\* C9: masking performs no transition: fill_bitmask(bitmask, idx) leaves every
\* Grammar unchanged, writes row idx only, and writes the same row content
\* when repeated; a call of the logits processor leaves its guide in the
\* state it was in.
C9_MaskingNoTransition ==
    [][/\ last'.op = "fill_bitmask"
          => /\ grammars' = grammars
             /\ \A row \in 0 .. (MaxNumSeqs - 1) :
                    row # last'.n => bitmask'[row] = bitmask[row]
             /\ (last.op = "fill_bitmask" /\ last.g = last'.g /\ last.n = last'.n)
                    => bitmask' = bitmask
       /\ last'.op = "__call__"
          => processors'[last'.g].guide = processors[last'.g].guide]_vars


(***************************************************************************)
(* Properties of validate_regex_buildable.                                 *)
(***************************************************************************)
\* A backreference, a look-around assertion or a word-boundary anchor, at any
\* depth of the tree.
RECURSIVE HasUnsupportedFrom(_, _), HasUnsupportedSubs(_, _)
HasUnsupportedFrom(tokens, i) ==
    IF i > Len(tokens) THEN FALSE
    ELSE \/ tokens[i].t \in {"GROUPREF", "GROUPREF_EXISTS", "ASSERT", "ASSERT_NOT"}
         \/ tokens[i].t = "AT" /\ tokens[i].v \in {"AT_BOUNDARY", "AT_NON_BOUNDARY"}
         \/ HasUnsupportedSubs(tokens[i].subs, 1)
         \/ HasUnsupportedFrom(tokens, i + 1)

HasUnsupportedSubs(subs, j) ==
    IF j > Len(subs) THEN FALSE
    ELSE HasUnsupportedFrom(subs[j], 1) \/ HasUnsupportedSubs(subs, j + 1)

\* Literals, character classes and alternations of literals only.
OnlyLiterals(tokens) ==
    \A i \in 1 .. Len(tokens) :
        \/ tokens[i].t \in {"LITERAL", "IN"}
        \/ /\ tokens[i].t = "BRANCH"
           /\ \A j \in 1 .. Len(tokens[i].subs) :
                  \A k \in 1 .. Len(tokens[i].subs[j]) :
                      tokens[i].subs[j][k].t = "LITERAL"

\* C10: validate_regex_buildable fails for every pattern whose tree holds a
\* backreference, a look-around assertion or a word-boundary anchor at any
\* depth, and does not fail for a pattern of literals, character classes and
\* alternations of literals.
C10_FeatureScan ==
    verdict # "idle"
        => /\ HasUnsupportedFrom(pattern, 1) => verdict # "ok"
           /\ OnlyLiterals(pattern) => verdict = "ok"

\* What a sequence of nodes can begin with, over its alternatives: "anchor"
\* (an anchor or assertion is met before any consumer), "consume" (a consumer
\* is met first) or "empty" (the sequence can match without either).  A
\* repetition of the enumerated patterns has minimum count 0.
RECURSIVE FirstOf(_, _), FirstOfBranches(_, _)
FirstOf(tokens, i) ==
    IF i > Len(tokens) THEN {"empty"}
    ELSE LET n == tokens[i]
             here ==
                 IF n.t \in Consumers THEN {"consume"}
                 ELSE IF n.t \in {"AT", "ASSERT", "ASSERT_NOT"} THEN {"anchor"}
                 ELSE IF n.t = "SUBPATTERN" THEN FirstOf(n.subs[1], 1)
                 ELSE IF n.t = "BRANCH" THEN FirstOfBranches(n.subs, 1)
                 ELSE IF n.t \in {"MAX_REPEAT", "MIN_REPEAT"}
                      THEN (IF n.mx = 0 THEN {"empty"}
                            ELSE FirstOf(n.subs[1], 1) \cup {"empty"})
                 ELSE {"empty"}
         IN  IF "empty" \in here
             THEN (here \ {"empty"}) \cup FirstOf(tokens, i + 1)
             ELSE here

FirstOfBranches(branches, j) ==
    IF j > Len(branches) THEN {}
    ELSE FirstOf(branches[j], 1) \cup FirstOfBranches(branches, j + 1)

\* C11: for a pattern without unsupported constructs, validate_regex_buildable
\* fails when, on some alternative of the pattern, an anchor comes before the
\* first character-consuming construct, and passes when a consuming construct
\* comes first on every alternative.
C11_AnchorBeforeConsumer ==
    (verdict # "idle" /\ ~HasUnsupportedFrom(pattern, 1))
        => /\ "anchor" \in FirstOf(pattern, 1) => verdict # "ok"
           /\ FirstOf(pattern, 1) = {"consume"} => verdict = "ok"

\* C19: a repetition with maximum count 0 is non-consuming: when the pattern
\* starts with one and an anchor follows it directly, validate_regex_buildable
\* rejects the pattern (a{0}^b).
C19_ZeroRepetitionNotConsuming ==
    (/\ verdict # "idle"
     /\ Len(pattern) >= 2
     /\ pattern[1].t = "MAX_REPEAT" /\ pattern[1].mx = 0
     /\ pattern[2].t = "AT")
        => verdict # "ok"

(***************************************************************************)
(* _reduced_vocabulary on the vocabularies of small tokenizers.            *)
(***************************************************************************)
\* The tokens a vocabulary is made of: token, decoded string, special, kind
\* and the byte-symbol string.  "xC3" stands for the symbol of byte 0xC3.
TokenShapes ==
    { <<"a",      <<"a">>,      FALSE, "str",        <<"a">>>>,
      <<"b",      <<"b">>,      FALSE, "str",        <<"b">>>>,
      <<"<pad>",  <<>>,         FALSE, "str",        <<>>>>,
      <<"<s>",    <<"<", "s">>, TRUE,  "str",        <<"<", "s">>>>,
      <<"b'a'",   <<"a">>,      FALSE, "bytes",      <<"a">>>>,
      <<"<0xC3>", <<"?">>,      FALSE, "llama_byte", <<"xC3">>>>,
      <<"\\u00c3", <<"?">>,     FALSE, "gpt2",       <<"xC3">>>>,
      <<"\\u2581", <<"?">>,     FALSE, "unmapped",   <<>>>> }

\* A vocabulary: distinct tokens (the keys of a dict), ids by position.
Vocabularies ==
    UNION {{ [i \in 1 .. n |->
                 Entry(sh[i][1], i - 1, sh[i][2], sh[i][3], sh[i][4], sh[i][5])] :
             sh \in {f \in [1 .. n -> TokenShapes] :
                         \A i, j \in 1 .. n : i # j => f[i] # f[j]} } :
           n \in 1 .. MaxVocab}

\* _reduced_vocabulary(tokenizer, eos_token_id) on the tokenizer at hand.
ReduceVocabulary ==
    /\ reduction.ret = "idle"
    /\ reduction' = ReducedVocabulary(tokenizer.entries, tokenizer.eos_token_id)
    /\ last' = Call("_reduced_vocabulary", 0, 0,
                    ReducedVocabulary(tokenizer.entries, tokenizer.eos_token_id).ret)
    /\ UNCHANGED <<engineVars, v0Vars, regexVars, backend, tokenizer, params,
                   disk, outlines_version, seq_ids>>


\* A tokenizer with no EOS id, or whose EOS id is the id of one of its tokens.
InitVocab ==
    /\ EngineInit
    /\ V0Idle
    /\ RegexIdle
    /\ backend = NoBackend
    /\ tokenizer \in UNION {{[entries |-> v, eos_token_id |-> e] :
                               e \in {NoId} \cup (0 .. (Len(v) - 1))} : v \in Vocabularies}
    /\ reduction = NoReduction
    /\ params = NoParams
    /\ outlines_version = "v1"
    /\ disk = [tag |-> "v1"]
    /\ seq_ids = [p \in 1 .. MaxProcessors |-> <<>>]
    /\ last = NoCall

NextVocab == ReduceVocabulary

SpecVocab == InitVocab /\ [][NextVocab]_vars

\* The ids in the id list of a string, and the number of times an id occurs
\* in the lists of the map.
Bucket(map, str) == {map[i].id : i \in {j \in 1 .. Len(map) : map[j].str = str}}
Occurrences(map, id) == Cardinality({i \in 1 .. Len(map) : map[i].id = id})

\* C12 as stated: every token id other than the ids of tokens that decode to
\* the empty string and the EOS id occurs exactly once in the returned map.
C12_EveryIdOnce ==
    reduction.ret = None
        => \A i \in 1 .. Len(tokenizer.entries) :
               LET e == tokenizer.entries[i]
               IN  (e.str # <<>> /\ e.id # tokenizer.eos_token_id)
                       => Occurrences(reduction.map, e.id) = 1

\* C12: every token id other than the ids of special tokens, of tokens that
\* decode to the empty string and the EOS id occurs exactly once in the
\* returned map, and those ids do not occur in it.
C12_EveryNonSpecialIdOnce ==
    reduction.ret = None
        => \A i \in 1 .. Len(tokenizer.entries) :
               LET e == tokenizer.entries[i]
               IN  Occurrences(reduction.map, e.id) =
                       IF ~e.special /\ e.str # <<>> /\ e.id # tokenizer.eos_token_id
                       THEN 1 ELSE 0

\* C12 witness: a map returned for a vocabulary with a special token, a token
\* that decodes to the empty string and a token that is kept, whose EOS token
\* decodes to the string of a token that is kept.
C12_Witness ==
    /\ reduction.ret = None /\ reduction.map # <<>>
    /\ \E i, j, k \in 1 .. Len(tokenizer.entries) :
           /\ tokenizer.entries[i].special
           /\ tokenizer.entries[j].id = tokenizer.eos_token_id
           /\ ~tokenizer.entries[j].special
           /\ tokenizer.entries[k].id # tokenizer.eos_token_id
           /\ tokenizer.entries[k].str = tokenizer.entries[j].str
           /\ tokenizer.entries[k].id \in Bucket(reduction.map, TokenStr(tokenizer.entries[k]))

\* C13: the EOS id occurs in no id list of the returned map, and every other
\* token that decodes to the string of the EOS token stays in its list.
C13_EosExcluded ==
    (reduction.ret = None /\ tokenizer.eos_token_id # NoId)
        => /\ \A i \in 1 .. Len(reduction.map) :
                  reduction.map[i].id # tokenizer.eos_token_id
           /\ \A j, k \in 1 .. Len(tokenizer.entries) :
                  LET eos == tokenizer.entries[j]
                      e == tokenizer.entries[k]
                  IN  (/\ eos.id = tokenizer.eos_token_id /\ e.id # eos.id
                       /\ ~e.special /\ e.str # <<>> /\ TokenStr(e) = TokenStr(eos))
                          => e.id \in Bucket(reduction.map, TokenStr(e))

\* C13 witness: the EOS token is an ordinary token that decodes to "a", and
\* another token that decodes to "a" is in the list of "a".
C13_Witness ==
    /\ reduction.ret = None
    /\ \E j, k \in 1 .. Len(tokenizer.entries) :
           /\ tokenizer.entries[j].id = tokenizer.eos_token_id
           /\ ~tokenizer.entries[j].special
           /\ TokenStr(tokenizer.entries[j]) = <<"a">>
           /\ k # j
           /\ TokenStr(tokenizer.entries[k]) = <<"a">>
           /\ Bucket(reduction.map, <<"a">>) = {tokenizer.entries[k].id}

(***************************************************************************)
(* Building a Vocabulary: the OutlinesBackend constructor and              *)
(* get_vocabulary, on tokenizers with and without an EOS id.               *)
(***************************************************************************)
\* tokN has the vocabulary of tokB and no eos_token_id.
AllTokenizers == Tokenizers \cup {"tokN"}

\* oc.Vocabulary(eos_token_id, reduced_vocab): with eos_token_id None the
\* engine either refuses the argument or builds a Vocabulary without EOS.
VocabularyOutcomes(eos) == IF eos = NoId THEN {"TypeError", None} ELSE {None}

\* OutlinesBackend(vllm_config): tok is the tokenizer of the configuration,
\* vsize its get_vocab_size().  The constructor has no test on eos_token_id.
OutlinesBackend(tok, vsize) ==
    LET eos == eos_token_id(tok)
        red == ReducedVocabulary(get_vocab(tok), eos)
    IN  /\ \E engine \in (IF red.ret = None THEN VocabularyOutcomes(eos) ELSE {red.ret}) :
               /\ backend' = IF engine = None
                             THEN BuiltBackend(tok, vsize, Vocabulary(eos, red.map))
                             ELSE [NoBackend EXCEPT !.status = "raised"]
               /\ last' = CompileCall("OutlinesBackend", 0, "", tok, engine)
        /\ UNCHANGED <<engineVars, v0Vars, regexVars, tokenizer, reduction, params,
                       disk, outlines_version, seq_ids>>

InitBuild ==
    /\ EngineInit
    /\ RegexIdle
    /\ AuxIdle
    /\ CACHE = [enabled |-> FALSE, store |-> NoStore]
    /\ tokattr \in [AllTokenizers -> {Attr("absent", NoVocabulary), Attr("None", NoVocabulary)}]
    /\ processors = [p \in 1 .. MaxProcessors |-> NoProcessor]
    /\ backend = NoBackend
    /\ last = NoCall

NextBuild ==
    \/ \E tok \in AllTokenizers : OutlinesBackend(tok, vocab_size)
    \/ \E tok \in AllTokenizers : GetVocabulary(tok)

SpecBuild == InitBuild /\ [][NextBuild]_vars

\* C14: on a tokenizer without an EOS id, the OutlinesBackend constructor and
\* get_vocabulary raise the configuration error (ValueError); no Vocabulary is
\* constructed and none is stored on the tokenizer.
C14_NoEosIsConfigurationError ==
    [][(last'.op \in {"OutlinesBackend", "get_vocabulary"} /\ eos_token_id(last'.tok) = NoId)
         => /\ last'.ret = "ValueError"
            /\ last'.op = "OutlinesBackend" => backend'.status # "built"
            /\ tokattr'[last'.tok] = tokattr[last'.tok]]_vars

(***************************************************************************)
(* allocate_token_bitmask on backends of every vocabulary size.            *)
(***************************************************************************)
InitBitmask ==
    /\ indexHeap = <<>>
    /\ lru = <<>>
    /\ grammars = [g \in 1 .. MaxGrammars |-> NoGrammar]
    /\ bitmask = <<>>
    /\ V0Idle
    /\ RegexIdle
    /\ AuxIdle
    /\ backend \in {BuiltBackend("tokA", vsize, VocabularyOf("tokA")) :
                       vsize \in 1 .. MaxVocabSize}
    /\ last = NoCall

NextBitmask == \E max_num_seqs \in 1 .. MaxNumSeqs : allocate_token_bitmask(max_num_seqs)

SpecBitmask == InitBitmask /\ [][NextBitmask]_vars

\* The least number of 32-bit words that hold vsize bits.
CeilWords(vsize) == CHOOSE w \in 0 .. vsize : 32 * w >= vsize /\ 32 * (w - 1) < vsize

\* C18: the buffer returned by allocate_token_bitmask(max_num_seqs) has
\* max_num_seqs rows of ceil(vocab_size / 32) words of 32 bits, every bit set.
C18_BitmaskShape ==
    last.op = "allocate_token_bitmask"
        => /\ DOMAIN bitmask = 0 .. (last.n - 1)
           /\ \A row \in DOMAIN bitmask :
                  bitmask[row] = 0 .. (32 * CeilWords(backend.vocab_size) - 1)

\* C18 witness: a buffer of two rows allocated for vocab_size 33, one above a
\* multiple of 32: two words a row.
C18_Witness ==
    /\ last.op = "allocate_token_bitmask" /\ last.n = 2
    /\ backend.vocab_size = 33
    /\ DOMAIN bitmask = {0, 1}
    /\ bitmask[1] = 0 .. 63

(***************************************************************************)
(* validate_structured_output_request_outlines.  A regex handed to         *)
(* validate_regex_buildable is first parsed by sre_parse.parse.  The       *)
(* regexes of REGEX and JSON requests are known by name; the regex of a    *)
(* choice request is built from the choices, as a sequence of characters.  *)
(***************************************************************************)
\* sre_parse.parse on the named regexes.
ParseRegex(regex_string) ==
    IF regex_string = "ab" THEN <<Lit, Lit>>
    ELSE IF regex_string = "^a" THEN <<At("AT_BEGINNING"), Lit>>
    ELSE <<MaxRepeat(MAXREPEAT, <<Lit>>)>>

\* re.escape: a backslash before every character that is special in a regex.
SpecialChars == {"^", "|", "(", ")", ".", "\\"}

RECURSIVE re_escape(_)
re_escape(str) ==
    IF str = <<>> THEN <<>>
    ELSE (IF Head(str) \in SpecialChars THEN <<"\\", Head(str)>> ELSE <<Head(str)>>)
         \o re_escape(Tail(str))

\* "|".join(choices)
RECURSIVE JoinBar(_)
JoinBar(strs) ==
    IF strs = <<>> THEN <<>>
    ELSE IF Len(strs) = 1 THEN strs[1]
    ELSE strs[1] \o <<"|">> \o JoinBar(Tail(strs))

\* "(" + "|".join(re.escape(str(choice)) for choice in choices) + ")"
ChoiceRegex(choices) ==
    <<"(">> \o JoinBar([i \in 1 .. Len(choices) |-> re_escape(choices[i])]) \o <<")">>

\* sre_parse on the text between the parentheses of a group without inner
\* groups: the alternatives are split at every "|" that is not escaped.
RECURSIVE SplitBar(_, _)
SplitBar(str, cur) ==
    IF str = <<>> THEN <<cur>>
    ELSE IF Head(str) = "\\" /\ Len(str) >= 2
         THEN SplitBar(SubSeq(str, 3, Len(str)), cur \o <<str[1], str[2]>>)
    ELSE IF Head(str) = "|" THEN <<cur>> \o SplitBar(Tail(str), <<>>)
    ELSE SplitBar(Tail(str), Append(cur, Head(str)))

\* The nodes of one alternative: an escaped character is a literal, ^ is an
\* anchor, . is ANY, any other character is a literal.
RECURSIVE ParseItem(_)
ParseItem(str) ==
    IF str = <<>> THEN <<>>
    ELSE IF Head(str) = "\\" /\ Len(str) >= 2
         THEN <<Node("LITERAL", str[2], 0, <<>>)>> \o ParseItem(SubSeq(str, 3, Len(str)))
    ELSE IF Head(str) = "^" THEN <<At("AT_BEGINNING")>> \o ParseItem(Tail(str))
    ELSE IF Head(str) = "." THEN <<Leaf("ANY")>> \o ParseItem(Tail(str))
    ELSE <<Node("LITERAL", Head(str), 0, <<>>)>> \o ParseItem(Tail(str))

\* sre_parse._parse_sub on the alternatives of a group.  A single alternative
\* is returned as it is.  Otherwise a node all alternatives start with is moved
\* in front, as long as there is one; then alternatives that are all one
\* literal become a character set, the others a BRANCH.
RECURSIVE Factor(_)
Factor(items) ==
    IF /\ \A i \in 1 .. Len(items) : items[i] # <<>>
       /\ \A i \in 1 .. Len(items) : items[i][1] = items[1][1]
    THEN <<items[1][1]>> \o Factor([i \in 1 .. Len(items) |-> Tail(items[i])])
    ELSE IF \A i \in 1 .. Len(items) : Len(items[i]) = 1 /\ items[i][1].t = "LITERAL"
         THEN <<Leaf("IN")>>
         ELSE <<Branch(items)>>

ParseSub(items) == IF Len(items) = 1 THEN items[1] ELSE Factor(items)

\* sre_parse.parse on "(" ... ")", a group without inner groups.
ParseGroup(regex) ==
    LET inner == SubSeq(regex, 2, Len(regex) - 1)
        alts == SplitBar(inner, <<>>)
    IN  <<Subpattern(ParseSub([i \in 1 .. Len(alts) |-> ParseItem(alts[i])]))>>

\* json.loads on the schema strings of the requests: the schema, or
\* "JSONDecodeError".
json_loads(text) == IF text = "{\"type\": \"string\"}" THEN "schemaAB" ELSE "JSONDecodeError"

\* The guided-decoding parameters of a request.  A field that is not given is
\* None; json is a string or a schema object (a dict); choice is a list of
\* strings.  At most one field is given.
JsonValues == {[kind |-> "str", value |-> ""],
               [kind |-> "str", value |-> "{"],
               [kind |-> "str", value |-> "{\"type\": \"string\"}"],
               [kind |-> "dict", value |-> "schemaAB"]}
ChoiceStrings == {<<>>, <<"a">>, <<"^">>, <<"a", "b">>}
ChoiceLists == UNION {[1 .. n -> ChoiceStrings] : n \in 0 .. MaxChoices}

Params(regex, json, choice, grammar) ==
    [guided_decoding |-> TRUE, regex |-> regex, json |-> json, choice |-> choice,
     grammar |-> grammar]

\* None wrapped as the value of a field that is not given.
Absent == [kind |-> "None", value |-> None]
Given(kind, value) == [kind |-> kind, value |-> value]

RequestParams ==
    {NoParams, Params(Absent, Absent, Absent, Absent)}
        \cup {Params(Given("str", r), Absent, Absent, Absent) : r \in {"", "ab", "a+", "^a"}}
        \cup {Params(Absent, j, Absent, Absent) : j \in JsonValues}
        \cup {Params(Absent, Absent, Given("list", c), Absent) : c \in ChoiceLists}
        \cup {Params(Absent, Absent, Absent, Given("str", g)) : g \in {"", "root ::= a"}}

\* The truth value of a field in an if or elif.
Truthy(field) ==
    /\ field.kind # "None"
    /\ field.kind = "str" => field.value # ""
    /\ field.kind = "list" => field.value # <<>>

\* What validate_regex_buildable does with a regex: None when it returns,
\* "ValueError" when it raises.
Buildable(parsed) ==
    IF validate_regex_buildable(parsed) = "ok" THEN None ELSE "ValueError"

\* validate_structured_output_request_outlines(params): None or "ValueError".
validate_request(p) ==
    IF ~p.guided_decoding THEN None
    ELSE IF Truthy(p.regex) THEN Buildable(ParseRegex(p.regex.value))
    ELSE IF Truthy(p.json)
         THEN (IF p.json.kind = "str" /\ json_loads(p.json.value) = "JSONDecodeError"
               THEN "ValueError"
               ELSE LET schema == IF p.json.kind = "str"
                                  THEN json_loads(p.json.value) ELSE p.json.value
                    IN  Buildable(ParseRegex(build_regex_from_schema(schema))))
    ELSE IF Truthy(p.choice) THEN Buildable(ParseGroup(ChoiceRegex(p.choice.value)))
    ELSE IF Truthy(p.grammar) THEN "ValueError"
    ELSE None

ValidateRequest(p) ==
    /\ params' = p
    /\ last' = Call("validate_structured_output_request_outlines", 0, 0, validate_request(p))
    /\ UNCHANGED <<engineVars, v0Vars, regexVars, backend, tokenizer, reduction,
                   disk, outlines_version, seq_ids>>

(***************************************************************************)
(* Requests validated and compiled by a backend.                           *)
(***************************************************************************)
ServeSpecs(request_type) ==
    IF request_type = "JSON" THEN Schemas
    ELSE IF request_type = "REGEX" THEN {"ab", "^a"}
    ELSE {"ab"}

NextServe ==
    \/ \E p \in RequestParams : ValidateRequest(p)
    \/ \E rt \in RequestTypes, g \in 1 .. MaxGrammars :
           \E gs \in ServeSpecs(rt) : compile_grammar("tokA", rt, gs, g)
    \/ \E g \in 1 .. MaxGrammars : discard(g)

SpecServe == Init /\ [][NextServe]_vars

\* A request whose specification is invalid: a schema string that does not
\* parse, a context-free grammar, or an empty choice list.
InvalidSpecification(p) ==
    /\ p.guided_decoding
    /\ \/ p.json.kind = "str" /\ json_loads(p.json.value) = "JSONDecodeError"
       \/ p.grammar.kind = "str" /\ p.grammar.value # ""
       \/ p.choice.kind = "list" /\ p.choice.value = <<>>

\* C15: validate_structured_output_request_outlines raises for every request
\* whose specification is a schema string that fails to parse, a context-free
\* grammar or an empty choice list.
C15_InvalidSpecificationRejected ==
    (last.op = "validate_structured_output_request_outlines" /\ InvalidSpecification(params))
        => last.ret = "ValueError"

\* C16: compile_grammar succeeds for a request of type CHOICE: it returns a
\* Grammar.
C16_ChoiceCompiles ==
    [][\A g \in 1 .. MaxGrammars :
           \A gs \in ServeSpecs("CHOICE") :
               compile_grammar("tokA", "CHOICE", gs, g)
                   => (last'.ret = None /\ grammars'[g].alive)]_vars

\* C20: every pattern the engine was asked to compile, and every pattern in
\* the cache, passes certification (validate_regex_buildable returns for it).
C20_CertifiedBeforeCompiled ==
    /\ \A i \in 1 .. Len(indexHeap) :
           validate_regex_buildable(ParseRegex(indexHeap[i].regex)) = "ok"
    /\ \A i \in 1 .. Len(lru) :
           validate_regex_buildable(ParseRegex(lru[i].regex)) = "ok"

(***************************************************************************)
(* The on-disk store across processes.  disk.tag is the value under the    *)
(* key '__version__' of the cache directory (None while the module was     *)
(* never imported on this machine) and CACHE.store its other entries; a    *)
(* process imports the module once, with the engine version it ships and   *)
(* its setting of VLLM_V0_USE_OUTLINES_CACHE.                              *)
(***************************************************************************)
\* get_cache() without memory.clear().
get_cache_keep(tag, store, version) == [tag |-> version, store |-> store]

\* get_cache(): the directory after the call, from its tag and entries on
\* entry and the version of the running engine.
get_cache(tag, store, version) ==
    [tag |-> version,
     store |-> IF tag # version THEN NoStore ELSE store]

Stored(store) == {regex \in Regexes : store[regex] # 0}

\* The import of the module in a new process: cache = get_cache(), then
\* CACHE = get_cache() when the cache is enabled; the processors of the
\* process before are gone and the tokenizers are new objects.
ImportModule(version, use_cache) ==
    /\ LET first == get_cache(disk.tag, CACHE.store, version)
           second == IF use_cache
                     THEN get_cache(first.tag, first.store, version)
                     ELSE first
       IN  /\ disk' = [tag |-> second.tag]
           /\ CACHE' = [enabled |-> use_cache, store |-> second.store]
           /\ last' = Call("get_cache", 0,
                           Cardinality(Stored(CACHE.store) \ Stored(second.store)),
                           None)
    /\ outlines_version' = version
    /\ processors' = [p \in 1 .. MaxProcessors |-> NoProcessor]
    /\ tokattr' \in [Tokenizers -> {Attr("absent", NoVocabulary),
                                    Attr("None", NoVocabulary)}]
    /\ UNCHANGED <<engineVars, regexVars, backend, tokenizer, reduction, params,
                   seq_ids>>

\* A machine on which the module was never imported.
InitCache ==
    /\ EngineInit
    /\ V0Idle
    /\ RegexIdle
    /\ tokenizer = NoTokenizer
    /\ reduction = NoReduction
    /\ params = NoParams
    /\ backend = NoBackend
    /\ outlines_version \in Versions
    /\ seq_ids = [p \in 1 .. MaxProcessors |-> <<>>]
    /\ disk = [tag |-> None]
    /\ last = NoCall

NextCache ==
    \/ \E version \in Versions, use_cache \in BOOLEAN : ImportModule(version, use_cache)
    \/ /\ disk.tag # None
       /\ \E p \in 1 .. MaxProcessors, regex \in Regexes, tok \in Tokenizers,
              reasoner \in BOOLEAN : RegexLogitsProcessor(p, regex, tok, reasoner)
    \/ \E p \in 1 .. MaxProcessors : drop(p)

SpecCache == InitCache /\ [][NextCache]_vars

\* C17: after get_cache() returns, the version tag of the store is the
\* version of the running engine; when the tag found on entry was another
\* version, or absent, no entry written before the call is left in the
\* store; when it was the same, every entry stored before is still there.
C17_VersionInvalidation ==
    [][last'.op = "get_cache"
         => /\ disk'.tag = outlines_version'
            /\ disk.tag # outlines_version' => Stored(CACHE'.store) = {}
            /\ disk.tag = outlines_version' => CACHE'.store = CACHE.store]_vars

\* An import under another engine version found entries and dropped them.
C17_Witness ==
    /\ last.op = "get_cache"
    /\ last.n > 0
    /\ disk.tag = outlines_version

(***************************************************************************)
(* The consumed counter of OutlinesGrammar.                                *)
(***************************************************************************)
\* The automaton state after the first k of tokens, from the state of guide;
\* Dead once one of them has no transition.
RECURSIVE StateAfter(_, _, _)
StateAfter(guide, tokens, k) ==
    IF k = 0 THEN guide.state
    ELSE LET q == StateAfter(guide, tokens, k - 1)
         IN  IF q = Dead THEN Dead
             ELSE IndexNextState(indexHeap[guide.index], q, tokens[k])

\* The number of tokens of the batch the guide advances through: the length
\* of its longest prefix that has a transition at every token.
Advanced(guide, tokens) ==
    Cardinality({k \in 1 .. Len(tokens) : StateAfter(guide, tokens, k) # Dead})

\* C21: num_processed_tokens counts the tokens the guide has advanced through
\* since construction: it is 0 on a new Grammar, every accept_tokens adds the
\* number of tokens the guide advanced through in that call (all of them,
\* len(tokens), when the call returns True) and leaves the guide after exactly
\* those tokens, and no other call changes the counter or, reset apart, the
\* guide; the counter never decreases.
C21_ConsumedCounter ==
    [][\A g \in 1 .. MaxGrammars :
          /\ (~grammars[g].alive /\ grammars'[g].alive)
                => /\ grammars'[g].num_processed_tokens = 0
                   /\ grammars'[g].guide.state = 0
          /\ \A tokens \in Batches :
                accept_tokens(g, tokens)
                   => LET k == Advanced(grammars[g].guide, tokens)
                      IN  /\ grammars'[g].num_processed_tokens =
                                 grammars[g].num_processed_tokens + k
                          /\ grammars'[g].guide.state =
                                 StateAfter(grammars[g].guide, tokens, k)
                          /\ last'.ret = "True" <=> k = Len(tokens)
          /\ (/\ grammars[g].alive /\ grammars'[g].alive
              /\ ~(last'.op = "accept_tokens" /\ last'.g = g))
                => /\ grammars'[g].num_processed_tokens =
                          grammars[g].num_processed_tokens
                   /\ last'.op # "reset" => grammars'[g].guide = grammars[g].guide
          /\ (grammars[g].alive /\ grammars'[g].alive)
                => grammars'[g].num_processed_tokens >=
                       grammars[g].num_processed_tokens]_vars

\* A batch of two tokens was accepted whole by a Grammar that had already
\* consumed one, with no reset: the counter stands at three.
C21_Witness ==
    /\ last.op = "accept_tokens"
    /\ last.ret = "True"
    /\ last.n = 2
    /\ grammars[last.g].alive
    /\ grammars[last.g].num_processed_tokens = 3
    /\ grammars[last.g].guide.state # 0

(***************************************************************************)
(* A logits processor over the decoding of its sequence: at every step it  *)
(* is called with the token ids generated so far, and the token sampled    *)
(* at that step is appended to them.                                       *)
(***************************************************************************)
\* One decoding step of the sequence of processor p: the processor is
\* called on the ids generated so far, then the sampled token joins them.
DecodeStep(p, token) ==
    /\ Len(seq_ids[p]) < MaxSteps
    /\ call(p, seq_ids[p])
    /\ seq_ids' = [seq_ids EXCEPT ![p] = Append(@, token)]

NextDecode ==
    \/ \E p \in 1 .. MaxProcessors, regex \in Regexes, tok \in Tokenizers,
           reasoner \in BOOLEAN : RegexLogitsProcessor(p, regex, tok, reasoner)
    \/ \E p \in 1 .. MaxProcessors, token \in TokenIds : DecodeStep(p, token)

SpecDecode == InitV0 /\ [][NextDecode]_vars

\* The ids the last call of processor p was given, and the part of them the
\* guide is fed: all of them, or what follows the end of the reasoning.
CalledWith(p) == SubSeq(seq_ids[p], 1, Len(seq_ids[p]) - 1)
ContentOf(p) ==
    IF processors[p].reasoner THEN extract_content(CalledWith(p)) ELSE CalledWith(p)

\* C22: over a run of calls on input_ids that start empty and grow by one
\* token per call, the guide state the mask is written from is the state
\* reached from the initial state by consuming the input_ids (what follows
\* the reasoning, with a reasoner) in order; the call on empty input_ids
\* leaves the guide at its initial state; and while the reasoner reports
\* that the reasoning has not ended, the guide stays at its initial state and
\* the scores are returned as they came.
C22_StateTracking ==
    \A p \in 1 .. MaxProcessors :
        (processors[p].alive /\ Len(seq_ids[p]) >= 1)
            => LET pr == processors[p]
                   start == Guide(pr.guide.index)
               IN  IF pr.reasoner /\ ~is_reasoning_end(CalledWith(p))
                   THEN /\ pr.guide = start
                        /\ pr.scores = TokenIds
                   ELSE LET content == ContentOf(p)
                            q == StateAfter(start, content, Len(content))
                        IN  /\ content = <<>> => pr.guide = start
                            /\ q # Dead
                                  => /\ pr.guide.state = q
                                     /\ pr.mask = GuideWriteMask(pr.guide, NumWords)
                                     /\ pr.scores = TokenIds \cap pr.mask

\* A processor with a reasoner, called after the reasoning ended on ids whose
\* content is not empty: the guide has left its initial state.
C22_Witness ==
    \E p \in 1 .. MaxProcessors :
        /\ processors[p].alive /\ processors[p].reasoner
        /\ Len(seq_ids[p]) = MaxSteps
        /\ is_reasoning_end(CalledWith(p))
        /\ ContentOf(p) # <<>>
        /\ last.op = "__call__" /\ last.ret = None
        /\ processors[p].guide.state # 0

====
